---- MODULE Spec2Model ----
(***************************************************************************)
(* The compute API of policyengine-api: the /compare endpoint              *)
(* (score_policy_reform_against_baseline), the background pipeline it      *)
(* starts (set_reform_impact_data) and the economy memoisation            *)
(* (ensure_economy_computed), over the economy and reform_impact tables.  *)
(* Request handlers and background threads interleave at every database   *)
(* operation.                                                              *)
(***************************************************************************)
EXTENDS Integers, Sequences, FiniteSets, TLC

\* Number of /compare requests (and so of background threads) in a run.
NumRequests == 2

Requests == 1..NumRequests

\* Python's None as a scalar: a missing query parameter, an unset column.
None == "None"

\* Python's None as the result of a lookup that finds no row.
NoRow == <<>>

\* policyengine_api.constants.VERSION
VERSION == "0.1.0"

\* Inputs of the endpoint.
CountryInputs == {"uk", "fr"}
PolicyIds == {"1", "2"}
BaselineInputs == {None, "2"}
RegionInputs == {None, "uk"}
TimePeriodInputs == {None, "2024"}
OptionInputs == {<<>>}

\* countries = dict(uk=uk, us=us)
countries == {"uk", "us"}

VARIABLES
    reform_impact,     \* table reform_impact: a set of rows
    economy,           \* table economy: a set of rows
    rpc,               \* position of each request handler
    request,           \* the handler's arguments
    found,             \* the handler's local reform_impact (line 98)
    response,          \* what the handler returned
    tpc,               \* position of the thread each handler may start
    baseline_economy,  \* set_reform_impact_data's local (line 245)
    reform_economy,    \* set_reform_impact_data's local (line 250)
    raises,            \* inputs on which compute_economy / compare raise
    simCalls,          \* compute_economy invocations per policy id
    cmpCalls,          \* compare_economic_outputs invocations per thread
    policy,            \* table policy: a set of rows
    household,         \* table household: a set of rows
    computed_household,\* table computed_household: a set of rows
    call               \* the last call of a policy or household endpoint

computeVars == <<reform_impact, economy, rpc, request, found, response, tpc,
                 baseline_economy, reform_economy, raises, simCalls, cmpCalls>>

endpointVars == <<policy, household, computed_household, call>>

vars == <<computeVars, endpointVars>>

----------------------------------------------------------------------------
\* The database layer (policyengine_api.data.PolicyEngineDatabase).

EconomyColumns == {"country_id", "policy_id", "region", "time_period",
                   "options_json", "api_version", "economy_json", "status",
                   "message"}

ReformImpactColumns == {"country_id", "reform_policy_id", "baseline_policy_id",
                        "region", "time_period", "options_json", "api_version",
                        "reform_impact_json", "status", "message"}

Matches(row, match) == \A c \in DOMAIN match : row[c] = match[c]

\* get_in_table(table, **match): a row with the given field values, or None.
get_in_table(table, match) ==
    IF \E row \in table : Matches(row, match)
    THEN CHOOSE row \in table : Matches(row, match)
    ELSE NoRow

\* set_in_table(table, match, values): one atomic upsert. The rows that match
\* take the new values; with no such row, one row is inserted.
set_in_table(table, columns, match, values) ==
    IF \E row \in table : Matches(row, match)
    THEN { IF Matches(row, match)
           THEN [c \in columns |-> IF c \in DOMAIN values THEN values[c] ELSE row[c]]
           ELSE row : row \in table }
    ELSE table \cup
         { [c \in columns |-> IF c \in DOMAIN match THEN match[c]
                              ELSE IF c \in DOMAIN values THEN values[c]
                              ELSE None] }

----------------------------------------------------------------------------
\* The simulation engine and JSON.

\* compute_economy's result when it returns: a function of its arguments.
compute_economy(country_id, policy_id, region, time_period, options) ==
    [net_income |-> IF policy_id = "1" THEN 10 ELSE 12]

\* compare_economic_outputs's result when it returns.
compare_economic_outputs(baseline, reform) ==
    [net_income_change |-> reform.net_income - baseline.net_income]

EconomyResults ==
    { compute_economy(c, p, r, t, o) :
        c \in countries, p \in PolicyIds, r \in RegionInputs,
        t \in TimePeriodInputs, o \in OptionInputs }

ImpactResults ==
    { compare_economic_outputs(b, r) : b \in EconomyResults, r \in EconomyResults }

\* Whether compare_economic_outputs raises on these arguments: on the inputs
\* chosen to fail, and on an argument that is no economy result.
compare_raises(raising, baseline, reform) ==
    raising \/ baseline \notin EconomyResults \/ reform \notin EconomyResults

JsonValues ==
    {<<>>} \cup OptionInputs \cup EconomyResults \cup ImpactResults
        \cup {[basic_rate |-> "0.25"]}

\* json.dumps: the text of a value; {} is written "{}".
json_dumps(value) == IF DOMAIN value = {} THEN "{}" ELSE ToString(value)

\* json.loads: the value a text denotes.
json_loads(text) == CHOOSE value \in JsonValues : json_dumps(value) = text

\* str(e) of the exception compute_economy raises.
SimulationError == "Simulation failed."

DependencyFailureMessage == "Baseline or reform economy computation failed."

\* get_current_law_policy_id: the id of the policy whose definition is {}.
get_current_law_policy_id(country_id) == "1"

----------------------------------------------------------------------------
\* Keys.

\* A variant of the reform_impact key without the engine version.
ReformImpactKey_NoVersion(req) ==
    [country_id |-> req.country_id,
     reform_policy_id |-> req.policy_id,
     baseline_policy_id |-> req.baseline_policy_id,
     region |-> req.region,
     time_period |-> req.time_period,
     options_json |-> json_dumps(req.options)]

ReformImpactKey(req) ==
    [country_id |-> req.country_id,
     reform_policy_id |-> req.policy_id,
     baseline_policy_id |-> req.baseline_policy_id,
     region |-> req.region,
     time_period |-> req.time_period,
     options_json |-> json_dumps(req.options),
     api_version |-> req.api_version]

\* A variant of the economy key without the policy.
EconomyKey_NoPolicy(req, policy_id) ==
    [country_id |-> req.country_id,
     region |-> req.region,
     time_period |-> req.time_period,
     options_json |-> json_dumps(req.options),
     api_version |-> req.api_version]

EconomyKey(req, policy_id) ==
    [country_id |-> req.country_id,
     policy_id |-> policy_id,
     region |-> req.region,
     time_period |-> req.time_period,
     options_json |-> json_dumps(req.options),
     api_version |-> req.api_version]

----------------------------------------------------------------------------
NoRequest == [country_id |-> None]

NoResponse == [status |-> None]

NoCall == [endpoint |-> None]

RaiseChoices ==
    { [sim |-> s, cmp |-> c] : s \in SUBSET PolicyIds, c \in BOOLEAN }

Init ==
    /\ reform_impact = {}
    /\ economy = {}
    /\ rpc = [r \in Requests |-> "idle"]
    /\ request = [r \in Requests |-> NoRequest]
    /\ found = [r \in Requests |-> NoRow]
    /\ response = [r \in Requests |-> NoResponse]
    /\ tpc = [r \in Requests |-> "unstarted"]
    /\ baseline_economy = [r \in Requests |-> NoRow]
    /\ reform_economy = [r \in Requests |-> NoRow]
    /\ raises \in RaiseChoices
    /\ simCalls = [p \in PolicyIds |-> 0]
    /\ cmpCalls = [r \in Requests |-> 0]
    /\ policy = {}
    /\ household = {}
    /\ computed_household = {}
    /\ call = NoCall

----------------------------------------------------------------------------
\* score_policy_reform_against_baseline, the /compare request handler.

\* Lines 83-96: the query parameters are read and validated, and a missing
\* baseline defaults to current law. Handlers are numbered in arrival order.
\* The handler runs in a process whose VERSION is `api_version`.
Receive(r, country_ids, policy_ids, baseline_ids, regions, time_periods, option_sets, versions) ==
    /\ rpc[r] = "idle"
    /\ \A earlier \in 1..(r - 1) : rpc[earlier] # "idle"
    /\ \E country_id \in country_ids, policy_id \in policy_ids,
          baseline_policy_id \in baseline_ids, region \in regions,
          time_period \in time_periods, options \in option_sets,
          api_version \in versions :
        IF region = None
        THEN /\ response' = [response EXCEPT ![r] =
                    [status |-> "400", body |-> "Region not specified."]]
             /\ rpc' = [rpc EXCEPT ![r] = "returned"]
             /\ UNCHANGED request
        ELSE IF time_period = None
        THEN /\ response' = [response EXCEPT ![r] =
                    [status |-> "400", body |-> "Time period not specified."]]
             /\ rpc' = [rpc EXCEPT ![r] = "returned"]
             /\ UNCHANGED request
        ELSE IF country_id \notin countries
        THEN /\ response' = [response EXCEPT ![r] =
                    [status |-> "404", body |-> "Country not found."]]
             /\ rpc' = [rpc EXCEPT ![r] = "returned"]
             /\ UNCHANGED request
        ELSE /\ request' = [request EXCEPT ![r] =
                    [country_id |-> country_id,
                     policy_id |-> policy_id,
                     baseline_policy_id |->
                         IF baseline_policy_id = None
                         THEN get_current_law_policy_id(country_id)
                         ELSE baseline_policy_id,
                     region |-> region,
                     time_period |-> time_period,
                     options |-> options,
                     api_version |-> api_version]]
             /\ rpc' = [rpc EXCEPT ![r] = "lookup"]
             /\ UNCHANGED response
    /\ UNCHANGED endpointVars
    /\ UNCHANGED <<reform_impact, economy, found, tpc, baseline_economy,
                   reform_economy, raises, simCalls, cmpCalls>>

\* A /compare request to a process of version VERSION.
Arrive(r) ==
    Receive(r, CountryInputs, PolicyIds, BaselineInputs, RegionInputs,
            TimePeriodInputs, OptionInputs, {VERSION})

\* Lines 98-107 (and, when a row is found, line 143): the lookup of the
\* reform_impact row.
Lookup(r) ==
    /\ rpc[r] = "lookup"
    /\ LET row == get_in_table(reform_impact, ReformImpactKey(request[r])) IN
        /\ found' = [found EXCEPT ![r] = row]
        /\ IF row = NoRow
           THEN /\ rpc' = [rpc EXCEPT ![r] = "reserve"]
                /\ UNCHANGED response
           ELSE /\ rpc' = [rpc EXCEPT ![r] = "returned"]
                /\ response' = [response EXCEPT ![r] = [status |-> "computing"]]
    /\ UNCHANGED endpointVars
    /\ UNCHANGED <<reform_impact, economy, request, tpc, baseline_economy,
                   reform_economy, raises, simCalls, cmpCalls>>

\* A variant of Reserve whose match also holds the status.
Reserve_StatusInMatch(r) ==
    /\ rpc[r] = "reserve"
    /\ reform_impact' = set_in_table(reform_impact, ReformImpactColumns,
            [c \in DOMAIN ReformImpactKey(request[r]) \cup {"status"} |->
                IF c = "status" THEN "computing"
                ELSE ReformImpactKey(request[r])[c]],
            [reform_impact_json |-> json_dumps(<<>>)])
    /\ rpc' = [rpc EXCEPT ![r] = "start"]
    /\ UNCHANGED endpointVars
    /\ UNCHANGED <<economy, request, found, response, tpc, baseline_economy,
                   reform_economy, raises, simCalls, cmpCalls>>

\* Lines 109-125: no row was found; the placeholder row is written.
Reserve(r) ==
    /\ rpc[r] = "reserve"
    /\ reform_impact' = set_in_table(reform_impact, ReformImpactColumns,
            ReformImpactKey(request[r]),
            [reform_impact_json |-> json_dumps(<<>>), status |-> "computing"])
    /\ rpc' = [rpc EXCEPT ![r] = "start"]
    /\ UNCHANGED endpointVars
    /\ UNCHANGED <<economy, request, found, response, tpc, baseline_economy,
                   reform_economy, raises, simCalls, cmpCalls>>

\* Lines 127-143: the thread running set_reform_impact_data is started and
\* the handler returns.
StartThread(r) ==
    /\ rpc[r] = "start"
    /\ tpc' = [tpc EXCEPT ![r] = "ensure_baseline"]
    /\ rpc' = [rpc EXCEPT ![r] = "returned"]
    /\ response' = [response EXCEPT ![r] = [status |-> "computing"]]
    /\ UNCHANGED endpointVars
    /\ UNCHANGED <<reform_impact, economy, request, found, baseline_economy,
                   reform_economy, raises, simCalls, cmpCalls>>

----------------------------------------------------------------------------
\* ensure_economy_computed, called by the thread for the baseline policy and
\* then for the reform policy (lines 230-235).

InBaselineStage(t) == tpc[t] \in {"ensure_baseline", "compute_baseline"}

required_policy_id(t) ==
    IF InBaselineStage(t) THEN request[t].baseline_policy_id
    ELSE request[t].policy_id

AfterEnsure(t) == IF InBaselineStage(t) THEN "ensure_reform" ELSE "read_baseline"

\* EconomyMissing with a cached error treated as a miss (an error is retried).
EconomyMissing_RetryError(row) == row = NoRow \/ row.status = "error"

\* Line 162: `if economy is None`.
EconomyMissing(row) == row = NoRow

\* EnsureLookup as a fire-and-forget dispatch: on a miss a computing
\* placeholder is written and the caller goes on without the result.
EnsureLookup_FireAndForget(t) ==
    /\ tpc[t] \in {"ensure_baseline", "ensure_reform"}
    /\ LET policy_id == required_policy_id(t)
           row == get_in_table(economy, EconomyKey(request[t], policy_id))
       IN IF EconomyMissing(row)
          THEN economy' = set_in_table(economy, EconomyColumns,
                   EconomyKey(request[t], policy_id),
                   [economy_json |-> json_dumps(<<>>), status |-> "computing"])
          ELSE UNCHANGED economy
    /\ tpc' = [tpc EXCEPT ![t] = AfterEnsure(t)]
    /\ UNCHANGED endpointVars
    /\ UNCHANGED <<reform_impact, rpc, request, found, response,
                   baseline_economy, reform_economy, raises, simCalls, cmpCalls>>

\* Lines 153-170: the lookup of the economy row; with no row, compute_economy
\* is invoked.
EnsureLookup(t) ==
    /\ tpc[t] \in {"ensure_baseline", "ensure_reform"}
    /\ LET policy_id == required_policy_id(t)
           row == get_in_table(economy, EconomyKey(request[t], policy_id))
       IN IF EconomyMissing(row)
          THEN /\ tpc' = [tpc EXCEPT ![t] =
                      IF InBaselineStage(t) THEN "compute_baseline"
                      ELSE "compute_reform"]
               /\ simCalls' = [simCalls EXCEPT ![policy_id] = @ + 1]
          ELSE /\ tpc' = [tpc EXCEPT ![t] = AfterEnsure(t)]
               /\ UNCHANGED simCalls
    /\ UNCHANGED endpointVars
    /\ UNCHANGED <<reform_impact, economy, rpc, request, found, response,
                   baseline_economy, reform_economy, raises, cmpCalls>>

\* Lines 164-185: compute_economy returns and the ok row is written.
ComputeReturns(t) ==
    /\ tpc[t] \in {"compute_baseline", "compute_reform"}
    /\ required_policy_id(t) \notin raises.sim
    /\ LET req == request[t]
           economy_result == compute_economy(req.country_id, required_policy_id(t),
                                 req.region, req.time_period, req.options)
       IN economy' = set_in_table(economy, EconomyColumns,
               EconomyKey(req, required_policy_id(t)),
               [economy_json |-> json_dumps(economy_result), status |-> "ok"])
    /\ tpc' = [tpc EXCEPT ![t] = AfterEnsure(t)]
    /\ UNCHANGED endpointVars
    /\ UNCHANGED <<reform_impact, rpc, request, found, response,
                   baseline_economy, reform_economy, raises, simCalls, cmpCalls>>

\* Lines 186-203: compute_economy raises and the error row is written.
ComputeRaises(t) ==
    /\ tpc[t] \in {"compute_baseline", "compute_reform"}
    /\ required_policy_id(t) \in raises.sim
    /\ economy' = set_in_table(economy, EconomyColumns,
            EconomyKey(request[t], required_policy_id(t)),
            [economy_json |-> json_dumps(<<>>), status |-> "error",
             message |-> SimulationError])
    /\ tpc' = [tpc EXCEPT ![t] = AfterEnsure(t)]
    /\ UNCHANGED endpointVars
    /\ UNCHANGED <<reform_impact, rpc, request, found, response,
                   baseline_economy, reform_economy, raises, simCalls, cmpCalls>>

----------------------------------------------------------------------------
\* set_reform_impact_data after the two ensure calls.

\* Lines 245-249.
ReadBaseline(t) ==
    /\ tpc[t] = "read_baseline"
    /\ baseline_economy' = [baseline_economy EXCEPT ![t] =
            get_in_table(economy,
                EconomyKey(request[t], request[t].baseline_policy_id))]
    /\ tpc' = [tpc EXCEPT ![t] = "read_reform"]
    /\ UNCHANGED endpointVars
    /\ UNCHANGED <<reform_impact, economy, rpc, request, found, response,
                   reform_economy, raises, simCalls, cmpCalls>>

\* Lines 250-254.
ReadReform(t) ==
    /\ tpc[t] = "read_reform"
    /\ reform_economy' = [reform_economy EXCEPT ![t] =
            get_in_table(economy, EconomyKey(request[t], request[t].policy_id))]
    /\ tpc' = [tpc EXCEPT ![t] = "decide"]
    /\ UNCHANGED endpointVars
    /\ UNCHANGED <<reform_impact, economy, rpc, request, found, response,
                   baseline_economy, raises, simCalls, cmpCalls>>

\* PrerequisiteFailed with `and` for `or`.
PrerequisiteFailed_And(t) ==
    baseline_economy[t].status # "ok" /\ reform_economy[t].status # "ok"

\* Line 255.
PrerequisiteFailed(t) ==
    baseline_economy[t].status # "ok" \/ reform_economy[t].status # "ok"

\* Lines 255-268: the error row is written.
WriteDependencyError(t) ==
    /\ tpc[t] = "decide"
    /\ PrerequisiteFailed(t)
    /\ reform_impact' = set_in_table(reform_impact, ReformImpactColumns,
            ReformImpactKey(request[t]),
            [reform_impact_json |-> json_dumps(<<>>), status |-> "error",
             message |-> DependencyFailureMessage])
    /\ tpc' = [tpc EXCEPT ![t] = "done"]
    /\ UNCHANGED endpointVars
    /\ UNCHANGED <<economy, rpc, request, found, response, baseline_economy,
                   reform_economy, raises, simCalls, cmpCalls>>

\* Impact with the comparator's arguments swapped.
Impact_Swapped(t) ==
    compare_economic_outputs(json_loads(reform_economy[t].economy_json),
                             json_loads(baseline_economy[t].economy_json))

\* Lines 270-273: the value of `impact`.
Impact(t) ==
    compare_economic_outputs(json_loads(baseline_economy[t].economy_json),
                             json_loads(reform_economy[t].economy_json))

\* Lines 269-286: compare_economic_outputs returns and the ok row is written.
CompareReturns(t) ==
    /\ tpc[t] = "decide"
    /\ ~PrerequisiteFailed(t)
    /\ ~compare_raises(raises.cmp,
                       json_loads(baseline_economy[t].economy_json),
                       json_loads(reform_economy[t].economy_json))
    /\ cmpCalls' = [cmpCalls EXCEPT ![t] = @ + 1]
    /\ reform_impact' = set_in_table(reform_impact, ReformImpactColumns,
            ReformImpactKey(request[t]),
            [reform_impact_json |-> json_dumps(Impact(t)), status |-> "ok"])
    /\ tpc' = [tpc EXCEPT ![t] = "done"]
    /\ UNCHANGED endpointVars
    /\ UNCHANGED <<economy, rpc, request, found, response, baseline_economy,
                   reform_economy, raises, simCalls>>

\* Lines 269-273: compare_economic_outputs raises; nothing catches it and the
\* thread ends.
CompareRaises(t) ==
    /\ tpc[t] = "decide"
    /\ ~PrerequisiteFailed(t)
    /\ compare_raises(raises.cmp,
                      json_loads(baseline_economy[t].economy_json),
                      json_loads(reform_economy[t].economy_json))
    /\ cmpCalls' = [cmpCalls EXCEPT ![t] = @ + 1]
    /\ tpc' = [tpc EXCEPT ![t] = "raised"]
    /\ UNCHANGED endpointVars
    /\ UNCHANGED <<reform_impact, economy, rpc, request, found, response,
                   baseline_economy, reform_economy, raises, simCalls>>

----------------------------------------------------------------------------
Next ==
    \E r \in Requests :
        \/ Arrive(r)
        \/ Lookup(r)
        \/ Lookup(r)
        \/ Reserve(r)
        \/ StartThread(r)
        \/ EnsureLookup(r)
        \/ ComputeReturns(r)
        \/ ComputeRaises(r)
        \/ ReadBaseline(r)
        \/ ReadReform(r)
        \/ WriteDependencyError(r)
        \/ CompareReturns(r)
        \/ CompareRaises(r)

Spec == Init /\ [][Next]_vars

----------------------------------------------------------------------------
\* Properties.

Terminal == {"ok", "error"}

Started(r) == tpc[r] # "unstarted"

ImpactRow(r) == get_in_table(reform_impact, ReformImpactKey(request[r]))

EconomyRow(r, policy_id) ==
    get_in_table(economy, EconomyKey(request[r], policy_id))

BaselineRow(r) == EconomyRow(r, request[r].baseline_policy_id)

ReformRow(r) == EconomyRow(r, request[r].policy_id)

\* C1: concurrent requests with one reform-impact key start at most one
\* set_reform_impact_data thread for that key.
C1_AtMostOnePipelinePerKey ==
    \A r1, r2 \in Requests :
        (Started(r1) /\ Started(r2) /\ request[r1] = request[r2]) => r1 = r2

\* C2: compute_economy is invoked at most once for an economy key, however
\* many ensure_economy_computed calls race on it.
C2_OneSimulatorCallPerKey == \A p \in PolicyIds : simCalls[p] <= 1

\* C3: a row of economy or reform_impact whose status is ok or error is never
\* changed by a later step.
C3_TerminalRowsImmutable ==
    [][ /\ \A row \in economy : row.status \in Terminal => row \in economy'
        /\ \A row \in reform_impact :
               row.status \in Terminal => row \in reform_impact' ]_vars

\* C6: a request that finds the reform_impact row returns that row's status.
C6_ResponseIsStoredStatus ==
    \A r \in Requests :
        (rpc[r] = "returned" /\ found[r] # NoRow)
            => response[r].status = found[r].status

\* C8: no failure of compute_economy or compare_economic_outputs unwinds out
\* of the background thread.
C8_NoFailureUnwinds == \A t \in Requests : tpc[t] # "raised"

\* C10: compute_economy runs for a key only while that key's economy row
\* exists with status computing.
C10_SimulatorRunsUnderPlaceholder ==
    \A t \in Requests :
        tpc[t] \in {"compute_baseline", "compute_reform"}
            => /\ EconomyRow(t, required_policy_id(t)) # NoRow
               /\ EconomyRow(t, required_policy_id(t)).status = "computing"

\* C4: when the thread decides while the baseline or the reform economy row
\* has status error, it writes the reform_impact row with status error and
\* the dependency-failure message, and it has not called
\* compare_economic_outputs.
C4_DependencyFailurePropagates ==
    [][ \A t \in Requests :
          ( /\ tpc[t] = "decide"
            /\ tpc'[t] # "decide"
            /\ BaselineRow(t) # NoRow
            /\ ReformRow(t) # NoRow
            /\ BaselineRow(t).status = "error" \/ ReformRow(t).status = "error" )
          => /\ tpc'[t] = "done"
             /\ cmpCalls'[t] = 0
             /\ LET row == get_in_table(reform_impact', ReformImpactKey(request[t]))
                IN /\ row # NoRow
                   /\ row.status = "error"
                   /\ row.message = DependencyFailureMessage
                   /\ row.reform_impact_json = "{}" ]_vars

\* A finished thread whose baseline economy failed and whose reform economy
\* succeeded, with the error row written.
C4_Witness ==
    \E t \in Requests :
        /\ tpc[t] = "done"
        /\ cmpCalls[t] = 0
        /\ BaselineRow(t) # NoRow /\ BaselineRow(t).status = "error"
        /\ ReformRow(t) # NoRow /\ ReformRow(t).status = "ok"
        /\ ImpactRow(t).status = "error"
        /\ ImpactRow(t).message = DependencyFailureMessage

\* C5: when the thread writes the reform_impact row while both economy rows
\* have status ok, the row has status ok and holds
\* compare_economic_outputs(baseline's stored result, reform's stored result).
C5_ImpactIsComparison ==
    [][ \A t \in Requests :
          ( /\ tpc[t] = "decide"
            /\ tpc'[t] = "done"
            /\ BaselineRow(t) # NoRow
            /\ ReformRow(t) # NoRow
            /\ BaselineRow(t).status = "ok"
            /\ ReformRow(t).status = "ok" )
          => LET row == get_in_table(reform_impact', ReformImpactKey(request[t]))
             IN /\ row # NoRow
                /\ row.status = "ok"
                /\ row.reform_impact_json =
                     json_dumps(compare_economic_outputs(
                         json_loads(BaselineRow(t).economy_json),
                         json_loads(ReformRow(t).economy_json))) ]_vars

\* A finished thread for baseline 1 and reform 2 with the ok row written:
\* the stored impact is the reform's result compared against the baseline's.
C5_Witness ==
    \E t \in Requests :
        /\ tpc[t] = "done"
        /\ request[t].baseline_policy_id = "1"
        /\ request[t].policy_id = "2"
        /\ ImpactRow(t).status = "ok"
        /\ json_loads(ImpactRow(t).reform_impact_json) = [net_income_change |-> 2]

\* C7: an ensure_economy_computed call that finds the economy row (ok or
\* error) calls compute_economy zero times and writes nothing, and a request
\* that finds the reform_impact row starts no thread and writes nothing.
C7_CachedNotRecomputed ==
    [][ /\ \A t \in Requests :
              ( /\ tpc[t] \in {"ensure_baseline", "ensure_reform"}
                /\ tpc'[t] # tpc[t]
                /\ EconomyRow(t, required_policy_id(t)) # NoRow )
              => /\ tpc'[t] = AfterEnsure(t)
                 /\ economy' = economy
                 /\ reform_impact' = reform_impact
                 /\ simCalls' = simCalls
                 /\ cmpCalls' = cmpCalls
        /\ \A r \in Requests :
              ( /\ rpc[r] = "lookup"
                /\ rpc'[r] # rpc[r]
                /\ ImpactRow(r) # NoRow )
              => /\ rpc'[r] = "returned"
                 /\ tpc' = tpc
                 /\ economy' = economy
                 /\ reform_impact' = reform_impact
                 /\ simCalls' = simCalls
                 /\ cmpCalls' = cmpCalls
        /\ \A r \in Requests :
              (rpc'[r] = "returned" /\ found'[r] # NoRow) => tpc'[r] = "unstarted"
      ]_vars

\* A request served from a resolved reform_impact row, after a thread whose
\* second ensure call found the error row cached by its first: one
\* compute_economy call for that policy.
C7_Witness ==
    \E t, r \in Requests :
        /\ tpc[t] = "done"
        /\ request[t].baseline_policy_id = request[t].policy_id
        /\ simCalls[request[t].policy_id] = 1
        /\ ReformRow(t).status = "error"
        /\ rpc[r] = "returned"
        /\ found[r] # NoRow
        /\ found[r].status = "error"
        /\ request[r] = request[t]
        /\ tpc[r] = "unstarted"

\* C9: the reform_impact row takes a terminal status only in a state where
\* both of its economy rows exist with a terminal status, and the thread
\* decides on two rows it read as terminal.
C9_BlockingJoin ==
    [][ /\ \A row \in reform_impact' \ reform_impact :
              row.status \in Terminal =>
                \A policy_id \in {row.baseline_policy_id, row.reform_policy_id} :
                    \E e \in economy :
                        /\ e.country_id = row.country_id
                        /\ e.policy_id = policy_id
                        /\ e.region = row.region
                        /\ e.time_period = row.time_period
                        /\ e.options_json = row.options_json
                        /\ e.api_version = row.api_version
                        /\ e.status \in Terminal
        /\ \A t \in Requests :
              tpc'[t] = "decide" =>
                /\ baseline_economy'[t] # NoRow
                /\ reform_economy'[t] # NoRow
                /\ baseline_economy'[t].status \in Terminal
                /\ reform_economy'[t].status \in Terminal ]_vars

\* A finished thread with its reform_impact row terminal and both economy
\* rows terminal.
C9_Witness ==
    \E t \in Requests :
        /\ tpc[t] = "done"
        /\ ImpactRow(t).status \in Terminal
        /\ BaselineRow(t) # NoRow /\ BaselineRow(t).status \in Terminal
        /\ ReformRow(t) # NoRow /\ ReformRow(t).status \in Terminal
        /\ request[t].baseline_policy_id # request[t].policy_id

\* The placeholder writes (line 110) and the terminal writes (lines 256, 275)
\* made so far to the reform_impact row of request r's key.
PlaceholderWrites(r) ==
    { q \in Requests : request[q] = request[r]
                       /\ (rpc[q] = "start" \/ Started(q)) }

TerminalWrites(r) ==
    { t \in Requests : request[t] = request[r] /\ tpc[t] = "done" }

\* C11: a reform_impact row is written at most twice: one placeholder write
\* and then one terminal write, never a third write.
C11_WrittenTwice ==
    \A r \in Requests :
        request[r] # NoRequest =>
            /\ Cardinality(PlaceholderWrites(r)) <= 1
            /\ Cardinality(TerminalWrites(r)) <= 1

----------------------------------------------------------------------------
\* Requests that differ in the order of their query parameters.

\* options = dict(flask.request.args), in the order of the query string:
\* ?a=1&b=2 and ?b=2&a=1.
OptionOrderings ==
    { << <<"a", "1">>, <<"b", "2">> >>, << <<"b", "2">>, <<"a", "1">> >> }

ArriveOptions(r) ==
    Receive(r, {"uk"}, {"2"}, {None}, {"uk"}, {"2024"}, OptionOrderings,
            {VERSION})

NextOptions ==
    \E r \in Requests :
        \/ ArriveOptions(r)
        \/ Lookup(r)
        \/ Reserve(r)
        \/ StartThread(r)
        \/ EnsureLookup(r)
        \/ ComputeReturns(r)
        \/ ComputeRaises(r)
        \/ ReadBaseline(r)
        \/ ReadReform(r)
        \/ WriteDependencyError(r)
        \/ CompareReturns(r)
        \/ CompareRaises(r)

SpecOptions == Init /\ [][NextOptions]_vars

\* The key/value pairs of an option mapping, whatever their order.
OptionPairs(options) == { options[i] : i \in DOMAIN options }

\* C12: two requests whose options hold the same key/value pairs address the
\* same reform_impact row and the same economy rows.
C12_SameOptionsSameKey ==
    \A r1, r2 \in Requests :
        ( /\ request[r1] # NoRequest
          /\ request[r2] # NoRequest
          /\ OptionPairs(request[r1].options) = OptionPairs(request[r2].options) )
        => /\ ReformImpactKey(request[r1]) = ReformImpactKey(request[r2])
           /\ EconomyKey(request[r1], "2") = EconomyKey(request[r2], "2")

----------------------------------------------------------------------------
\* The policy endpoints (endpoints/policy.py). Each call is one step.

PolicyColumns == {"id", "country_id", "policy_hash", "policy_json", "label",
                  "api_version"}

\* Policy definitions: current law {} and one reform.
PolicyDefinitions == {<<>>, [basic_rate |-> "0.25"]}

LabelInputs == {"a", "b"}

PolicyIdInputs == {None, "2"}

\* COUNTRIES of policyengine_api.country.
COUNTRIES == {"uk", "us"}

\* Both supported countries and one unknown country.
PolicyCountryInputs == COUNTRIES \cup {"fr"}

\* validate_country: an error response for an unknown country, else None.
validate_country(country_id) ==
    IF country_id \in COUNTRIES THEN NoCall
    ELSE [status |-> "error", message |-> "Country not found."]

\* hash_object: the content hash of an object.
hash_object(object) == ToString(<<"sha", object>>)

\* The number an id column holds.
IdNumber(id) == CHOOSE n \in 1..9 : ToString(n) = id

\* set_in_table(..., auto_increment=column): on an insert that does not give
\* the column, it takes the next free number.
set_in_table_auto_increment(table, columns, match, values, auto_increment) ==
    IF (\E row \in table : Matches(row, match)) \/ auto_increment \in DOMAIN match
    THEN set_in_table(table, columns, match, values)
    ELSE LET used == { IdNumber(row[auto_increment]) : row \in table }
             next == IF used = {} THEN 1
                     ELSE 1 + CHOOSE n \in used : \A m \in used : m <= n
         IN set_in_table(table, columns, match,
                [c \in DOMAIN values \cup {auto_increment} |->
                    IF c = auto_increment THEN ToString(next) ELSE values[c]])

\* Lines 70-73: the match of set_policy's upsert.
PolicyMatch(policy_id, policy_json) ==
    IF policy_id # None
    THEN [policy_hash |-> hash_object(policy_json), id |-> policy_id]
    ELSE [policy_hash |-> hash_object(policy_json)]

\* set_policy, lines 56-88.
set_policy(country_id, policy_id, policy_json, label) ==
    /\ IF validate_country(country_id) # NoCall
       THEN /\ call' = [endpoint |-> "set_policy", country_id |-> country_id,
                        policy_id |-> policy_id, policy_json |-> policy_json,
                        label |-> label,
                        result |-> validate_country(country_id)]
            /\ UNCHANGED policy
       ELSE LET written == set_in_table_auto_increment(policy, PolicyColumns,
                               PolicyMatch(policy_id, policy_json),
                               [country_id |-> country_id,
                                policy_json |-> json_dumps(policy_json),
                                label |-> label,
                                api_version |-> VERSION],
                               "id")
                stored == get_in_table(written,
                              [country_id |-> country_id,
                               policy_hash |-> hash_object(policy_json)])
            IN /\ policy' = written
               /\ call' = [endpoint |-> "set_policy", country_id |-> country_id,
                           policy_id |-> policy_id, policy_json |-> policy_json,
                           label |-> label,
                           result |-> [status |-> "ok", message |-> None,
                                       result |-> [policy_id |-> stored.id]]]
    /\ UNCHANGED <<household, computed_household>>
    /\ UNCHANGED computeVars

\* get_policy's `policy_data` argument: not given, or a definition.
PolicyDataInputs ==
    {[given |-> FALSE, value |-> <<>>]}
        \cup {[given |-> TRUE, value |-> d] : d \in PolicyDefinitions}

\* get_policy's result, lines 22-54.
get_policy_result(country_id, policy_id, policy_data) ==
    IF validate_country(country_id) # NoCall THEN validate_country(country_id)
    ELSE IF policy_id # None
    THEN LET row == get_in_table(policy, [country_id |-> country_id,
                                          id |-> policy_id])
         IN IF row = NoRow
            THEN [status |-> "error", message |-> "Policy not found in country"]
            ELSE [status |-> "ok", message |-> None,
                  result |-> [row EXCEPT !.policy_json = json_loads(@)]]
    ELSE IF policy_data.given
    THEN LET row == get_in_table(policy,
                        [country_id |-> country_id,
                         policy_hash |-> hash_object(policy_data.value)])
         IN IF row = NoRow
            THEN [status |-> "error", message |-> "Policy not found in country"]
            ELSE [status |-> "ok", message |-> None,
                  result |-> [row EXCEPT !.policy_json = json_loads(@)]]
    ELSE [status |-> "error",
          message |-> "Must provide either policy_id or policy_data"]

\* get_policy, lines 10-54.
get_policy(country_id, policy_id, policy_data) ==
    /\ call' = [endpoint |-> "get_policy", country_id |-> country_id,
                policy_id |-> policy_id, policy_data |-> policy_data,
                result |-> get_policy_result(country_id, policy_id, policy_data)]
    /\ UNCHANGED <<policy, household, computed_household>>
    /\ UNCHANGED computeVars

\* No /compare request is in progress and nothing raises.
InitEndpoints ==
    /\ reform_impact = {}
    /\ economy = {}
    /\ rpc = [r \in Requests |-> "idle"]
    /\ request = [r \in Requests |-> NoRequest]
    /\ found = [r \in Requests |-> NoRow]
    /\ response = [r \in Requests |-> NoResponse]
    /\ tpc = [r \in Requests |-> "unstarted"]
    /\ baseline_economy = [r \in Requests |-> NoRow]
    /\ reform_economy = [r \in Requests |-> NoRow]
    /\ simCalls = [p \in PolicyIds |-> 0]
    /\ cmpCalls = [r \in Requests |-> 0]
    /\ policy = {}
    /\ household = {}
    /\ computed_household = {}
    /\ call = NoCall

InitPolicy ==
    /\ InitEndpoints
    /\ raises = [sim |-> {}, cmp |-> FALSE]

NextPolicy ==
    \/ \E country_id \in PolicyCountryInputs, policy_id \in PolicyIdInputs,
          policy_json \in PolicyDefinitions, label \in LabelInputs :
          set_policy(country_id, policy_id, policy_json, label)
    \/ \E country_id \in PolicyCountryInputs, policy_id \in PolicyIdInputs \cup {"1"},
          policy_data \in PolicyDataInputs :
          get_policy(country_id, policy_id, policy_data)

SpecPolicy == InitPolicy /\ [][NextPolicy]_vars

----------------------------------------------------------------------------
\* The computed-household endpoint (endpoints/computed_household.py). Each
\* call is one step.

HouseholdColumns == {"id", "country_id", "household_json"}

ComputedHouseholdColumns == {"country_id", "household_id", "policy_id",
                             "api_version", "computed_household_json"}

\* The value slots of a household: entity_plural, entity_id, variable_name,
\* period. The first is an input, the other two are requested.
AgeSlot == <<"people", "you", "age", "2024">>

TaxSlot == <<"people", "you", "income_tax", "2024">>

BenefitSlot == <<"households", "home", "housing_benefit", "2024">>

Slots == {AgeSlot, TaxSlot, BenefitSlot}

\* A household definition: whether it has an "axes" entry, and its slots
\* (None is a slot left to be computed).
HouseholdDefinitions ==
    { [axes |-> axes,
       slots |-> [slot \in Slots |-> IF slot = AgeSlot THEN "30" ELSE None]] :
         axes \in BOOLEAN }

SlotValues == {None, "100", "80", "[100]", "[80]", "Infinity"}

HouseholdJsonValues ==
    { [axes |-> axes,
       slots |-> [slot \in Slots |-> IF slot = AgeSlot THEN "30" ELSE filled[slot]]] :
         axes \in BOOLEAN, filled \in [Slots \ {AgeSlot} -> SlotValues] }

household_json_loads(text) ==
    CHOOSE value \in HouseholdJsonValues : json_dumps(value) = text

\* Which slot computations raise and which give an infinite value is a
\* property of the country package: chosen once, in the initial state.
CalculationChoices ==
    { [sim |-> {}, cmp |-> FALSE, calc |-> failing, inf |-> infinite] :
        failing \in SUBSET {TaxSlot, BenefitSlot}, infinite \in SUBSET {TaxSlot} }

\* simulation.calculate(variable_name, period) for one entity, line 90: the
\* value under current law or under a reform.
simulation_calculate(slot, reform) ==
    IF Cardinality(DOMAIN reform) > 0 THEN "80" ELSE "100"

\* get_requested_computations, lines 135-151: the slots that hold None.
get_requested_computations(household_data) ==
    { slot \in DOMAIN household_data.slots : household_data.slots[slot] = None }

\* One pass of the loop body, lines 88-132: the slot's new value; None when
\* the body raised and the slot is left as it was.
SlotResult(household_data, reform, slot) ==
    IF slot \in raises.calc THEN None
    ELSE IF household_data.axes
    THEN IF slot \in raises.inf THEN None
         ELSE "[" \o simulation_calculate(slot, reform) \o "]"
    ELSE IF slot \in raises.inf THEN "Infinity"
         ELSE simulation_calculate(slot, reform)

\* A variant of calculate without the per-slot try/except: the first failure
\* ends the call and no slot is filled.
calculate_AbortOnFailure(household_data, reform) ==
    IF \E slot \in get_requested_computations(household_data) :
            SlotResult(household_data, reform, slot) = None
    THEN household_data
    ELSE [household_data EXCEPT !.slots =
            [slot \in DOMAIN household_data.slots |->
                IF slot \in get_requested_computations(household_data)
                THEN SlotResult(household_data, reform, slot)
                ELSE household_data.slots[slot]]]

\* calculate, lines 61-133.
calculate(household_data, reform) ==
    [household_data EXCEPT !.slots =
        [slot \in DOMAIN household_data.slots |->
            IF slot \in get_requested_computations(household_data)
            THEN SlotResult(household_data, reform, slot)
            ELSE household_data.slots[slot]]]

ComputedHouseholdKey(country_id, household_id, policy_id, api_version) ==
    [country_id |-> country_id, household_id |-> household_id,
     policy_id |-> policy_id, api_version |-> api_version]

\* A variant of the lookup at lines 14-20 that leaves policy_id out.
PreComputed_AnyPolicy(country_id, household_id, policy_id, api_version) ==
    get_in_table(computed_household,
        [country_id |-> country_id, household_id |-> household_id,
         api_version |-> api_version])

\* Lines 14-20.
PreComputed(country_id, household_id, policy_id, api_version) ==
    get_in_table(computed_household,
        ComputedHouseholdKey(country_id, household_id, policy_id, api_version))

\* Line 32.
PolicyLookup(country_id, policy_id) ==
    get_in_table(policy, [country_id |-> country_id, id |-> policy_id])

\* Line 26.
HouseholdLookup(country_id, household_id) ==
    get_in_table(household, [country_id |-> country_id, id |-> household_id])

HouseholdCall(country_id, household_id, policy_id, api_version, calculated, result) ==
    [endpoint |-> "get_household_under_policy", country_id |-> country_id,
     household_id |-> household_id, policy_id |-> policy_id,
     api_version |-> api_version, calculated |-> calculated,
     result |-> result]

\* get_household_under_policy, lines 13-58, under engine version api_version.
household_under_policy(country_id, household_id, policy_id, api_version) ==
    LET pre_computed_household ==
            PreComputed(country_id, household_id, policy_id, api_version)
        household_data == HouseholdLookup(country_id, household_id)
        policy_row == PolicyLookup(country_id, policy_id)
    IN
    /\ IF pre_computed_household # NoRow
       THEN /\ call' = HouseholdCall(country_id, household_id, policy_id,
                           api_version, {},
                           [status |-> "ok",
                            result |-> household_json_loads(
                                pre_computed_household.computed_household_json)])
            /\ UNCHANGED computed_household
       ELSE IF household_data = NoRow
       THEN /\ call' = HouseholdCall(country_id, household_id, policy_id,
                           api_version, {},
                           [status |-> "error",
                            message |-> "Household not found in country"])
            /\ UNCHANGED computed_household
       ELSE IF policy_row = NoRow
       THEN /\ call' = HouseholdCall(country_id, household_id, policy_id,
                           api_version, {},
                           [status |-> "error",
                            message |-> "Policy not found in country"])
            /\ UNCHANGED computed_household
       ELSE LET reform == json_loads(policy_row.policy_json)
                definition == household_json_loads(household_data.household_json)
                result == calculate(definition, reform)
            IN /\ computed_household' =
                    set_in_table(computed_household, ComputedHouseholdColumns,
                        ComputedHouseholdKey(country_id, household_id,
                                             policy_id, api_version),
                        [computed_household_json |-> json_dumps(result)])
               /\ call' = HouseholdCall(country_id, household_id, policy_id,
                              api_version,
                              get_requested_computations(definition),
                              [status |-> "ok", message |-> None,
                               result |-> result])
    /\ UNCHANGED <<policy, household>>
    /\ UNCHANGED computeVars

get_household_under_policy(country_id, household_id, policy_id) ==
    household_under_policy(country_id, household_id, policy_id, VERSION)

HouseholdIdInputs == {"1", "2"}

\* The ids under which households get stored.
StoredHouseholdIds == {"1"}

\* A household is stored under a new id.
create_household(country_id, household_id, household_json) ==
    /\ country_id \in COUNTRIES
    /\ \A row \in household : row.id # household_id
    /\ household' = set_in_table(household, HouseholdColumns,
                        [country_id |-> country_id, id |-> household_id],
                        [household_json |-> json_dumps(household_json)])
    /\ call' = [endpoint |-> "create_household", country_id |-> country_id,
                household_id |-> household_id]
    /\ UNCHANGED <<policy, computed_household>>
    /\ UNCHANGED computeVars

\* set_policy as the household calls need it: no policy_id, one label.
create_policy(country_id, policy_json) ==
    set_policy(country_id, None, policy_json, "a")

InitHousehold ==
    /\ InitEndpoints
    /\ raises \in CalculationChoices

NextHousehold ==
    \/ \E country_id \in COUNTRIES, policy_json \in PolicyDefinitions :
          create_policy(country_id, policy_json)
    \/ \E country_id \in COUNTRIES, household_id \in StoredHouseholdIds,
          household_json \in HouseholdDefinitions :
          create_household(country_id, household_id, household_json)
    \/ \E country_id \in COUNTRIES, household_id \in HouseholdIdInputs,
          policy_id \in PolicyIds :
          get_household_under_policy(country_id, household_id, policy_id)

SpecHousehold == InitHousehold /\ [][NextHousehold]_vars

----------------------------------------------------------------------------
\* Two deployments that differ in VERSION share the database: /compare
\* requests and household calls arrive under either engine version.

NEXT_VERSION == "0.2.0"

EngineVersions == {VERSION, NEXT_VERSION}

ArriveVersion(r) ==
    Receive(r, {"uk"}, {"2"}, {None}, {"uk"}, {"2024"}, OptionInputs,
            EngineVersions)

\* Nothing raises, the Simulator raises for the reform, or the Comparator
\* raises.
VersionRaiseChoices ==
    { [sim |-> {}, cmp |-> FALSE, calc |-> {}, inf |-> {}],
      [sim |-> {"2"}, cmp |-> FALSE, calc |-> {}, inf |-> {}],
      [sim |-> {}, cmp |-> TRUE, calc |-> {}, inf |-> {}] }

\* The household stored for uk.
VersionHousehold ==
    [axes |-> FALSE,
     slots |-> [slot \in Slots |-> IF slot = AgeSlot THEN "30" ELSE None]]

\* The state after set_policy("uk", None, {}, "a"), after one household was
\* stored for uk, and after get_household_under_policy("uk", "1", "1") was
\* served under VERSION.
InitVersion ==
    /\ reform_impact = {}
    /\ economy = {}
    /\ rpc = [r \in Requests |-> "idle"]
    /\ request = [r \in Requests |-> NoRequest]
    /\ found = [r \in Requests |-> NoRow]
    /\ response = [r \in Requests |-> NoResponse]
    /\ tpc = [r \in Requests |-> "unstarted"]
    /\ baseline_economy = [r \in Requests |-> NoRow]
    /\ reform_economy = [r \in Requests |-> NoRow]
    /\ raises \in VersionRaiseChoices
    /\ simCalls = [p \in PolicyIds |-> 0]
    /\ cmpCalls = [r \in Requests |-> 0]
    /\ policy = {[id |-> "1", country_id |-> "uk",
                  policy_hash |-> hash_object(<<>>),
                  policy_json |-> json_dumps(<<>>), label |-> "a",
                  api_version |-> VERSION]}
    /\ household = {[id |-> "1", country_id |-> "uk",
                     household_json |-> json_dumps(VersionHousehold)]}
    /\ computed_household =
            {[country_id |-> "uk", household_id |-> "1", policy_id |-> "1",
              api_version |-> VERSION,
              computed_household_json |->
                    json_dumps(calculate(VersionHousehold, <<>>))]}
    /\ call = NoCall

NextVersion ==
    \/ \E r \in Requests :
        \/ ArriveVersion(r)
        \/ Lookup(r)
        \/ Reserve(r)
        \/ StartThread(r)
        \/ EnsureLookup(r)
        \/ ComputeReturns(r)
        \/ ComputeRaises(r)
        \/ ReadBaseline(r)
        \/ ReadReform(r)
        \/ WriteDependencyError(r)
        \/ CompareReturns(r)
        \/ CompareRaises(r)
    \/ \E api_version \in EngineVersions :
        household_under_policy("uk", "1", "1", api_version)

SpecVersion == InitVersion /\ [][NextVersion]_vars

\* C18: set_policy deduplicates by content: a set_policy call that succeeds
\* returns the id of the row already stored for its country and policy_hash,
\* and afterwards the policy table holds at most one row for that country and
\* policy_hash.
C18_SetPolicyDeduplicates ==
    [][ (call'.endpoint = "set_policy" /\ call'.result.status = "ok") =>
            LET policy_hash == hash_object(call'.policy_json)
                Same(row) == /\ row.country_id = call'.country_id
                             /\ row.policy_hash = policy_hash
            IN /\ \A row \in policy :
                    Same(row) => call'.result.result.policy_id = row.id
               /\ \A row1, row2 \in policy' :
                    (Same(row1) /\ Same(row2)) => row1 = row2 ]_vars

\* C20: set_policy for one country leaves the policies of every other country
\* unchanged: the rows of other countries stay as they are, and a policy with
\* the same definition stored for another country is still found there by its
\* definition and by its id, with the same record as before.
C20_OtherCountriesUnchanged ==
    [][ call'.endpoint = "set_policy" =>
            /\ \A row \in policy :
                    row.country_id # call'.country_id => row \in policy'
            /\ \A A \in COUNTRIES, definition \in PolicyDefinitions :
                    LET D == [given |-> TRUE, value |-> definition]
                        NoData == [given |-> FALSE, value |-> <<>>]
                        before == get_policy_result(A, None, D)
                    IN (/\ A # call'.country_id
                        /\ definition = call'.policy_json
                        /\ before.status = "ok") =>
                            LET byId == get_policy_result(A, before.result.id, NoData)
                            IN /\ get_policy_result(A, None, D)' = before
                               /\ byId' = byId ]_vars

\* The last step was a get_household_under_policy call.
HouseholdCalled == call.endpoint = "get_household_under_policy"

\* C15: a get_household_under_policy call whose household id or policy id
\* does not resolve in its country returns an error and writes nothing; a
\* call whose ids both resolve returns ok and leaves a computed_household
\* record.
C15_NotFoundWritesNothing ==
    [][ call'.endpoint = "get_household_under_policy" =>
            LET resolves ==
                    /\ \E row \in household :
                            /\ row.country_id = call'.country_id
                            /\ row.id = call'.household_id
                    /\ \E row \in policy :
                            /\ row.country_id = call'.country_id
                            /\ row.id = call'.policy_id
            IN /\ ~resolves =>
                    /\ call'.result.status = "error"
                    /\ UNCHANGED <<policy, household, computed_household>>
               /\ resolves =>
                    /\ call'.result.status = "ok"
                    /\ \E row \in computed_household' :
                            /\ row.country_id = call'.country_id
                            /\ row.household_id = call'.household_id
                            /\ row.policy_id = call'.policy_id ]_vars

\* C16: get_household_under_policy is memoized per (country, household,
\* policy, version): a call that finds no record and succeeds stores exactly
\* one record holding its result; a call that finds a record returns ok with
\* the stored result, invokes no calculation and writes nothing; stored
\* records never change, so a later result equals the first.
C16_Memoized ==
    [][ call'.endpoint = "get_household_under_policy" =>
            LET IsKey(row) ==
                    /\ row.country_id = call'.country_id
                    /\ row.household_id = call'.household_id
                    /\ row.policy_id = call'.policy_id
                    /\ row.api_version = call'.api_version
                stored == { row \in computed_household : IsKey(row) }
                storedAfter == { row \in computed_household' : IsKey(row) }
            IN /\ stored # {} =>
                    /\ call'.result.status = "ok"
                    /\ \A row \in stored : call'.result.result =
                            household_json_loads(row.computed_household_json)
                    /\ call'.calculated = {}
                    /\ UNCHANGED <<policy, household, computed_household>>
               /\ (stored = {} /\ call'.result.status = "ok") =>
                    /\ Cardinality(storedAfter) = 1
                    /\ \A row \in storedAfter : call'.result.result =
                            household_json_loads(row.computed_household_json)
               /\ \A row \in computed_household : row \in computed_household' ]_vars

\* A call returned a stored result (the cache-hit return has no message).
C16_Witness ==
    /\ HouseholdCalled
    /\ call.result.status = "ok"
    /\ "message" \notin DOMAIN call.result
    /\ \E slot \in Slots : call.result.result.slots[slot] \in {"100", "80", "[100]", "[80]"}

\* The household definition a call computed on.
CalledHousehold ==
    household_json_loads(
        (CHOOSE row \in household :
            row.country_id = call.country_id /\ row.id = call.household_id
        ).household_json)

\* The computation of a slot fails: it raises, or it is infinite in a
\* household with axes.
SlotFails(slot) ==
    slot \in raises.calc \/ (CalledHousehold.axes /\ slot \in raises.inf)

\* C17: after a get_household_under_policy call that computed, each
\* requested slot whose computation failed is unset, each requested slot whose
\* computation succeeded is filled, the given slots are as they were, the
\* status is ok and the result is the one stored.
C17_BestEffortFill ==
    (HouseholdCalled /\ call.calculated # {}) =>
        /\ call.result.status = "ok"
        /\ \A slot \in Slots :
              IF CalledHousehold.slots[slot] = None
              THEN /\ slot \in call.calculated
                   /\ SlotFails(slot) => call.result.result.slots[slot] = None
                   /\ ~SlotFails(slot) => call.result.result.slots[slot] # None
              ELSE call.result.result.slots[slot] = CalledHousehold.slots[slot]
        /\ \E row \in computed_household :
              /\ row.country_id = call.country_id
              /\ row.household_id = call.household_id
              /\ row.policy_id = call.policy_id
              /\ row.computed_household_json = json_dumps(call.result.result)

\* A call computed, one requested slot failed and another was filled.
C17_Witness ==
    /\ HouseholdCalled
    /\ call.calculated # {}
    /\ \E failed, filled \in call.calculated :
          /\ SlotFails(failed)
          /\ call.result.result.slots[failed] = None
          /\ call.result.result.slots[filled] # None

ReformImpactKeyColumns ==
    {"country_id", "reform_policy_id", "baseline_policy_id", "region",
     "time_period", "options_json", "api_version"}

EconomyKeyColumns ==
    {"country_id", "policy_id", "region", "time_period", "options_json",
     "api_version"}

SameKey(row1, row2, columns) == \A c \in columns : row1[c] = row2[c]

Statuses == {"computing", "ok", "error"}

\* C14: each of the economy and reform_impact tables holds at most one record
\* per key tuple, and every record's status is computing, ok or error.
C14_OneRecordPerKey ==
    /\ \A row1, row2 \in reform_impact :
          SameKey(row1, row2, ReformImpactKeyColumns) => row1 = row2
    /\ \A row1, row2 \in economy :
          SameKey(row1, row2, EconomyKeyColumns) => row1 = row2
    /\ \A row \in reform_impact \cup economy : row.status \in Statuses

\* Two requests for one key both wrote the placeholder, both threads have
\* finished, and the tables hold the impact row and both economy rows.
C14_Witness ==
    \E r1, r2 \in Requests :
        /\ r1 # r2
        /\ request[r1] # NoRequest
        /\ request[r1] = request[r2]
        /\ found[r1] = NoRow /\ found[r2] = NoRow
        /\ tpc[r1] = "done" /\ tpc[r2] = "done"
        /\ request[r1].baseline_policy_id # request[r1].policy_id
        /\ Cardinality(reform_impact) = 1
        /\ Cardinality(economy) = 2

\* No handler is between its arrival and its return, and every thread that
\* was started has ended: no step of a started thread is left to schedule.
Quiescent ==
    \A r \in Requests :
        /\ rpc[r] \in {"idle", "returned"}
        /\ tpc[r] \in {"unstarted", "done", "raised"}

\* C19: every reform_impact record written with status computing eventually
\* has status ok or error: once every handler has returned and every started
\* thread has run to its end, no record is left with status computing.
C19_ComputingEndsTerminal ==
    Quiescent => \A row \in reform_impact : row.status \in Terminal

\* Request r takes a step.
Acting(r) == rpc'[r] # rpc[r] \/ tpc'[r] # tpc[r]

\* The rows of a table stored under engine versions other than api_version.
OtherVersions(table, api_version) ==
    { row \in table : row.api_version # api_version }

\* C13: the engine version is part of every key read or written: a step of a
\* request or call under version v leaves the economy, reform_impact and
\* computed_household rows of other versions unchanged, every row a request
\* has read carries the request's version, a stored household result is
\* returned only from a row of the call's version, and requests that differ
\* only in version have different keys.
C13_VersionInEveryKey ==
    [][ /\ \A r \in Requests : Acting(r) =>
            /\ OtherVersions(reform_impact', request'[r].api_version)
                    = OtherVersions(reform_impact, request'[r].api_version)
            /\ OtherVersions(economy', request'[r].api_version)
                    = OtherVersions(economy, request'[r].api_version)
            /\ found'[r] # NoRow =>
                    found'[r].api_version = request'[r].api_version
            /\ baseline_economy'[r] # NoRow =>
                    baseline_economy'[r].api_version = request'[r].api_version
            /\ reform_economy'[r] # NoRow =>
                    reform_economy'[r].api_version = request'[r].api_version
            /\ \A other \in Requests :
                    (/\ request'[other] # NoRequest
                     /\ request'[other].api_version # request'[r].api_version)
                    => /\ ReformImpactKey(request'[other]) # ReformImpactKey(request'[r])
                       /\ \A policy_id \in PolicyIds :
                            EconomyKey(request'[other], policy_id)
                                # EconomyKey(request'[r], policy_id)
        /\ call'.endpoint = "get_household_under_policy" =>
            /\ OtherVersions(computed_household', call'.api_version)
                    = OtherVersions(computed_household, call'.api_version)
            /\ (call'.result.status = "ok" /\ "message" \notin DOMAIN call'.result) =>
                    \E row \in computed_household :
                        /\ row.api_version = call'.api_version
                        /\ row.computed_household_json
                                = json_dumps(call'.result.result) ]_vars

\* Both versions were asked for the same reform impact and the same household,
\* each has its own finished reform_impact row and its own computed_household
\* row, and the last call returned a stored result.
C13_Witness ==
    /\ \E row1, row2 \in reform_impact :
          /\ row1.api_version = VERSION
          /\ row2.api_version = NEXT_VERSION
          /\ row1.status \in Terminal
          /\ row2.status \in Terminal
          /\ [row1 EXCEPT !.api_version = NEXT_VERSION, !.status = row2.status,
                          !.message = row2.message,
                          !.reform_impact_json = row2.reform_impact_json] = row2
    /\ \E row1, row2 \in computed_household :
          /\ row1.api_version = VERSION
          /\ row2.api_version = NEXT_VERSION
    /\ HouseholdCalled
    /\ "message" \notin DOMAIN call.result

\* The row is the reform_impact record of the request's key; options_json is
\* the serialization of the request's options.
IsImpactOf(row, req, options_json) ==
    /\ row.country_id = req.country_id
    /\ row.reform_policy_id = req.policy_id
    /\ row.baseline_policy_id = req.baseline_policy_id
    /\ row.region = req.region
    /\ row.time_period = req.time_period
    /\ row.options_json = options_json
    /\ row.api_version = req.api_version

\* The row is the economy record of the request's baseline or reform policy.
IsEconomyOf(row, req, options_json) ==
    /\ row.country_id = req.country_id
    /\ row.policy_id \in {req.baseline_policy_id, req.policy_id}
    /\ row.region = req.region
    /\ row.time_period = req.time_period
    /\ row.options_json = options_json
    /\ row.api_version = req.api_version

\* C21: a step of the handler or thread of a request for key K changes only
\* the reform_impact record K and the economy records of K's baseline and
\* reform policies: every other record is as it was, and no record of another
\* key appears.
C21_PipelineWritesOwnRecords ==
    [][ \A r \in Requests : Acting(r) =>
            \/ UNCHANGED <<reform_impact, economy>>
            \/ LET options_json == json_dumps(request[r].options)
               IN /\ { row \in reform_impact : ~IsImpactOf(row, request[r], options_json) }
                    = { row \in reform_impact' : ~IsImpactOf(row, request[r], options_json) }
                  /\ { row \in economy : ~IsEconomyOf(row, request[r], options_json) }
                    = { row \in economy' : ~IsEconomyOf(row, request[r], options_json) } ]_vars

\* The pipelines of two different keys ran interleaved: one has finished and
\* its record is terminal, while the other has read its economies and its
\* record is still the placeholder.
C21_Witness ==
    \E t1, t2 \in Requests :
        /\ tpc[t1] = "done"
        /\ tpc[t2] = "decide"
        /\ ~IsImpactOf(ImpactRow(t2), request[t1], json_dumps(request[t1].options))
        /\ ImpactRow(t1).status \in Terminal
        /\ ImpactRow(t2).status = "computing"
        /\ \E row \in economy :
              ~IsEconomyOf(row, request[t1], json_dumps(request[t1].options))

====
